---- MODULE Spec2Model ----
(***************************************************************************)
(* A model of agricola's player board: src/agricola/player.py (Player,     *)
(* PlayerStateChange, the spatial objects) and the capacity solver of      *)
(* src/agricola/utils.py (multiset_satisfy).                               *)
(*                                                                         *)
(* Every public operation of Player is one action.  An operation is a pure *)
(* operator from the player's state (a record of the object's fields) and  *)
(* the call's arguments to the state the call leaves behind and the way    *)
(* the call ended ("ok", or the name of the exception it raised).          *)
(***************************************************************************)
EXTENDS Integers, Sequences, FiniteSets, TLC

VARIABLES
    resources,          \* self.resources: the dict built by the constructor
    animals,            \* self.animals: the dict built by the constructor
    attrs,              \* the instance attributes that hold a number
    _rooms,             \* self._rooms: list of Room (their spaces)
    _fields,            \* self._fields: list of Field
    _pastures,          \* self._pastures: list of Pasture
    _stables,           \* self._stables: list of Stable (their spaces)
    occupied_pasture,   \* the list object self.occupied['pasture'] refers to
    last,               \* the last call: operation, arguments, how it ended
    constraints,        \* capacity solver: the requirement list given
    multiset,           \* capacity solver: the capacity multiset given
    solved              \* capacity solver: "none" or what multiset_satisfy returned

vars == <<resources, animals, attrs, _rooms, _fields, _pastures, _stables,
          occupied_pasture, last, constraints, multiset, solved>>

boardVars == <<resources, animals, attrs, _rooms, _fields, _pastures, _stables,
               occupied_pasture>>

solverVars == <<constraints, multiset, solved>>

(***************************************************************************)
(* Names                                                                   *)
(***************************************************************************)
GOODS == {"food", "wood", "clay", "stone", "reed", "grain", "veg"}

ANIMALS == {"sheep", "boar", "cattle"}

\* The names of RESOURCE_TYPES that are read-only properties of Player and
\* evaluate to a number.
COUNT_PROPERTIES == {"pastures", "stables", "rooms", "grain_fields", "veg_fields",
                     "empty_fields", "fields"}

\* The names of RESOURCE_TYPES that are read-only properties of Player.
PROPERTIES == COUNT_PROPERTIES \cup {"fences", "fenced_stables", "free_stables",
                                     "empty_spaces", "used_spaces"}

RESOURCE_TYPES == GOODS \cup ANIMALS \cup PROPERTIES
                    \cup {"fences_avail", "stables_avail", "people", "people_avail"}

(***************************************************************************)
(* Small helpers over sequences and finite sets                            *)
(***************************************************************************)
Range(s) == {s[i] : i \in 1..Len(s)}

RECURSIVE SumSeq(_)
SumSeq(s) == IF s = <<>> THEN 0 ELSE Head(s) + SumSeq(Tail(s))

RECURSIVE SumSet(_, _)
SumSet(S, f) == IF S = {} THEN 0
                ELSE LET x == CHOOSE y \in S : TRUE IN f[x] + SumSet(S \ {x}, f)

Abs(x) == IF x < 0 THEN -x ELSE x

Max2(a, b) == IF a >= b THEN a ELSE b

\* A list of the elements of the finite set S, each once.
RECURSIVE SetToSeq(_)
SetToSeq(S) == IF S = {} THEN <<>>
               ELSE LET x == CHOOSE y \in S : TRUE IN <<x>> \o SetToSeq(S \ {x})

\* sorted(s) for a list of numbers.
RECURSIVE sorted(_)
sorted(s) ==
    IF s = <<>> THEN <<>>
    ELSE LET i == CHOOSE j \in 1..Len(s) : \A k \in 1..Len(s) : s[j] <= s[k]
         IN  <<s[i]>> \o sorted(SubSeq(s, 1, i - 1) \o SubSeq(s, i + 1, Len(s)))

\* All sequences over S of length lo..hi.
SeqsOf(S, lo, hi) == UNION {[1..n -> S] : n \in lo..hi}

(***************************************************************************)
(* Grid geometry (utils.py)                                                *)
(***************************************************************************)
\* The board of the player under study: Player(name, shape=(2, 2), ...).
shape == <<2, 2>>

index_check_fails(idx, shp) ==
    (\E i \in 1..2 : idx[i] < 0) \/ (\E i \in 1..2 : idx[i] >= shp[i])

index_check(idx, shp) == ~index_check_fails(idx, shp)

orthog_adjacent(a, b) ==
    LET abs_diff == [i \in 1..2 |-> Abs(a[i] - b[i])]
        count_nonzero == Cardinality({i \in 1..2 : abs_diff[i] # 0})
    IN  count_nonzero = 1 /\ abs_diff[1] + abs_diff[2] = 1

\* The nodes reachable from the nodes of `seen` along orthogonal adjacency.
RECURSIVE Component(_, _)
Component(seen, nodes) ==
    LET more == {n \in nodes \ seen : \E s \in seen : orthog_adjacent(s, n)}
    IN  IF more = {} THEN seen ELSE Component(seen \cup more, nodes)

is_connected(nodes) ==
    nodes = {} \/ Component({CHOOSE n \in nodes : TRUE}, nodes) = nodes

\* check_connected_group with its guard off by one (len(G) > 2 for
\* len(G) > 1): a group of two objects is never looked at.
check_connected_group_above_two(nodes) ==
    ~(Cardinality(nodes) > 2 /\ ~is_connected(nodes))

\* SpatialObject.check_connected_group over the spaces of the objects given:
\* TRUE when it returns, FALSE when it raises AgricolaLogicError.
check_connected_group(nodes) ==
    ~(Cardinality(nodes) > 1 /\ ~is_connected(nodes))

(***************************************************************************)
(* The player object                                                       *)
(*                                                                         *)
(* A player is the record of the fields of a Player instance.  `attrs` is  *)
(* the part of the instance dictionary that holds numbers: people,         *)
(* people_avail, fences_avail and stables_avail from the constructor, and  *)
(* every name PlayerStateChange.check_and_apply has set with setattr.      *)
(***************************************************************************)
Self == [resources |-> resources, animals |-> animals, attrs |-> attrs,
         rooms |-> _rooms, fields |-> _fields, pastures |-> _pastures,
         stables |-> _stables, occupied_pasture |-> occupied_pasture]

Store(p) ==
    /\ resources' = p.resources
    /\ animals' = p.animals
    /\ attrs' = p.attrs
    /\ _rooms' = p.rooms
    /\ _fields' = p.fields
    /\ _pastures' = p.pastures
    /\ _stables' = p.stables
    /\ occupied_pasture' = p.occupied_pasture

\* A dict is a sequence of <<key, value>> pairs with distinct keys, in
\* insertion order.
Keys(d) == {d[i][1] : i \in 1..Len(d)}

Get(d, k, default) ==
    IF k \in Keys(d) THEN d[CHOOSE i \in 1..Len(d) : d[i][1] = k][2] ELSE default

Put(d, k, v) ==
    IF k \in Keys(d) THEN [i \in 1..Len(d) |-> IF d[i][1] = k THEN <<k, v>> ELSE d[i]]
    ELSE Append(d, <<k, v>>)

\* The derived counts (the properties of Player that evaluate to a number).
Count(p, k) ==
    CASE k = "rooms" -> Len(p.rooms)
      [] k = "pastures" -> Len(p.pastures)
      [] k = "stables" -> Len(p.stables)
      [] k = "fields" -> Len(p.fields)
      [] k = "grain_fields" ->
            Cardinality({i \in 1..Len(p.fields) : p.fields[i].kind = "grain"})
      [] k = "veg_fields" ->
            Cardinality({i \in 1..Len(p.fields) : p.fields[i].kind = "veg"})
      [] k = "empty_fields" ->
            Cardinality({i \in 1..Len(p.fields) : p.fields[i].kind = "None"})

\* getattr(player, k) raises, or gives a value that no number compares with
\* or adds to: fenced_stables and free_stables iterate over the int
\* self.pastures once there is a stable; fences, used_spaces and empty_spaces
\* are sets.
getattr_raises(p, k) ==
    \/ k \in {"fences", "used_spaces", "empty_spaces"}
    \/ k \in {"fenced_stables", "free_stables"} /\ p.stables # <<>>

\* getattr(player, k) for a name of RESOURCE_TYPES: the property, else the
\* instance attribute, else (Player.__getattr__) the resources entry, else
\* the animals entry.
getattr(p, k) ==
    IF k \in COUNT_PROPERTIES THEN Count(p, k)
    ELSE IF k \in {"fenced_stables", "free_stables"} THEN 0
    ELSE IF k \in DOMAIN p.attrs THEN p.attrs[k]
    ELSE IF k \in DOMAIN p.resources THEN p.resources[k]
    ELSE p.animals[k]

\* setattr(player, k, v) raises AttributeError for a property (none has a
\* setter); otherwise it binds the instance attribute k.
setattr_raises(k) == k \in PROPERTIES

setattr(p, k, v) ==
    [p EXCEPT !.attrs = [n \in DOMAIN p.attrs \cup {k} |->
                            IF n = k THEN v ELSE p.attrs[n]]]

(***************************************************************************)
(* PlayerStateChange                                                       *)
(***************************************************************************)
\* The loop of PlayerStateChange.__init__ over the change dict, from its
\* i-th entry on: the prereq dict as the loop leaves it, and whether the loop
\* raised AgricolaLogicError.
RECURSIVE init_prereq(_, _, _)
init_prereq(change, prereq, i) ==
    IF i > Len(change) THEN [raised |-> FALSE, prereq |-> prereq]
    ELSE LET k == change[i][1]
             v == change[i][2]
         IN  IF k \notin RESOURCE_TYPES THEN [raised |-> TRUE, prereq |-> prereq]
             ELSE IF v < 0
                  THEN init_prereq(change, Put(prereq, k, Get(prereq, k, 0) - v), i + 1)
                  ELSE init_prereq(change, prereq, i + 1)

\* PlayerStateChange(description, change, prereq, change_fns, prereq_fns);
\* the callbacks are given by their number.
PlayerStateChange(change, prereq, n_change_fns, n_prereq_fns) ==
    LET made == init_prereq(change, prereq, 1)
    IN  [raised |-> made.raised, change |-> change, prereq |-> made.prereq,
         n_change_fns |-> n_change_fns, n_prereq_fns |-> n_prereq_fns]

\* The first loop of check_and_apply, from the i-th prerequisite on.
RECURSIVE check_prereq(_, _, _)
check_prereq(p, prereq, i) ==
    IF i > Len(prereq) THEN "ok"
    ELSE IF getattr_raises(p, prereq[i][1]) THEN "TypeError"
    ELSE IF getattr(p, prereq[i][1]) < prereq[i][2] THEN "AgricolaNotEnoughResources"
    ELSE check_prereq(p, prereq, i + 1)

\* The third loop of check_and_apply, from the i-th change on.
RECURSIVE apply_change(_, _, _)
apply_change(p, change, i) ==
    IF i > Len(change) THEN [p |-> p, result |-> "ok"]
    ELSE LET k == change[i][1]
             v == change[i][2]
         IN  IF getattr_raises(p, k) THEN [p |-> p, result |-> "TypeError"]
             ELSE IF setattr_raises(k) THEN [p |-> p, result |-> "AttributeError"]
             ELSE apply_change(setattr(p, k, v + getattr(p, k)), change, i + 1)

\* check_and_apply with its loops in the wrong order: the changes are set
\* on the player before the prerequisites are looked at.
apply_before_check(p, sc) ==
    LET applied == apply_change(p, sc.change, 1)
        checked == check_prereq(p, sc.prereq, 1)
    IN  IF applied.result # "ok" THEN applied
        ELSE IF checked # "ok" THEN [p |-> applied.p, result |-> checked]
        ELSE IF sc.n_prereq_fns > 0 \/ sc.n_change_fns > 0
        THEN [p |-> applied.p, result |-> "AttributeError"]
        ELSE applied

\* PlayerStateChange.check_and_apply(player).  A callback is called as
\* fn(self, self.game), and a PlayerStateChange has no attribute game: the
\* call of the first callback raises AttributeError.
check_and_apply(p, sc) ==
    LET checked == check_prereq(p, sc.prereq, 1)
        applied == apply_change(p, sc.change, 1)
    IN  IF checked # "ok" THEN [p |-> p, result |-> checked]
        ELSE IF sc.n_prereq_fns > 0 THEN [p |-> p, result |-> "AttributeError"]
        ELSE IF applied.result # "ok" THEN applied
        ELSE IF sc.n_change_fns > 0 THEN [p |-> applied.p, result |-> "AttributeError"]
        ELSE applied

\* Construct the state change and apply it, as every operation does.
transact(p, change, prereq) ==
    LET sc == PlayerStateChange(change, prereq, 0, 0)
    IN  IF sc.raised
        THEN [p |-> p, result |-> "AgricolaLogicError"]
        ELSE check_and_apply(p, sc)

(***************************************************************************)
(* The capacity solver (utils.py)                                          *)
(*                                                                         *)
(* A multiset is a function from keys (capacities) to counts, as a         *)
(* collections.Counter is.                                                 *)
(***************************************************************************)
\* Counter(capacities) for a list of capacities.
Counter(capacities) ==
    [k \in Range(capacities) |->
        Cardinality({i \in 1..Len(capacities) : capacities[i] = k})]

\* multiset_subtract that returns the copy of a untouched.
multiset_subtract_nothing(a, b) == a

multiset_subtract(a, b) ==
    [k \in DOMAIN a |-> IF k \in DOMAIN b THEN Max2(0, a[k] - b[k]) ELSE a[k]]

multiset_weight(a) == SumSet(DOMAIN a, [k \in DOMAIN a |-> k * a[k]])

\* submultisets with range(v) for range(v+1): no key is ever taken whole.
submultisets_short(ms) ==
    LET top == IF DOMAIN ms = {} THEN 0
               ELSE CHOOSE m \in {ms[k] : k \in DOMAIN ms} : \A k \in DOMAIN ms : ms[k] <= m
    IN  {sub \in [DOMAIN ms -> 0..top] : \A k \in DOMAIN ms : sub[k] < ms[k]}

\* itertools.product(*[range(v+1) for k, v in iteritems(multiset)]), each
\* tuple of counts zipped with the keys.
submultisets(ms) ==
    LET top == IF DOMAIN ms = {} THEN 0
               ELSE CHOOSE m \in {ms[k] : k \in DOMAIN ms} : \A k \in DOMAIN ms : ms[k] <= m
    IN  {sub \in [DOMAIN ms -> 0..top] : \A k \in DOMAIN ms : sub[k] <= ms[k]}

RECURSIVE multiset_satisfy(_, _)
multiset_satisfy(cs, ms) ==
    IF cs = <<>> THEN TRUE
    ELSE IF Len(cs) = 1 THEN multiset_weight(ms) >= cs[1]
    ELSE IF multiset_weight(ms) < SumSeq(cs) THEN FALSE
    ELSE \E sub \in submultisets(ms) :
            /\ ~(multiset_weight(sub) < cs[1])
            /\ multiset_satisfy(Tail(cs), multiset_subtract(ms, sub))

(***************************************************************************)
(* Spatial objects (player.py)                                             *)
(***************************************************************************)
\* Field(space): an empty field.
Field(space) == [space |-> space, n_items |-> 0, kind |-> "None"]

\* The four fences Pasture.__init__ appends for space s: top, right, bottom,
\* left.
fences_of_space(s) ==
    << <<s, <<s[1], s[2] + 1>>>>,
       <<<<s[1], s[2] + 1>>, <<s[1] + 1, s[2] + 1>>>>,
       <<<<s[1] + 1, s[2]>>, <<s[1] + 1, s[2] + 1>>>>,
       <<s, <<s[1] + 1, s[2]>>>> >>

\* The list `fences` of Pasture.__init__ after its loop over the spaces
\* given: four fences per entry of the list.
appended_fences(spaces) ==
    [k \in 1..(4 * Len(spaces)) |->
        fences_of_space(spaces[((k - 1) \div 4) + 1])[((k - 1) % 4) + 1]]

\* Counter(fences), and the fences whose count is 1.
fences_counted_once(fences) ==
    {fences[k] : k \in {n \in DOMAIN fences :
                          Cardinality({m \in DOMAIN fences : fences[m] = fences[n]}) = 1}}

\* Pasture(spaces): spaces is the list given; self.spaces is its set.
Pasture(spaces) ==
    [spaces |-> Range(spaces), n_stables |-> 0,
     fences |-> fences_counted_once(appended_fences(spaces))]

\* fences_for_pasture_group with the set emptied inside the loop: only the
\* last pasture's fences are returned.
fences_of_last_pasture(pastures) ==
    IF pastures = <<>> THEN {} ELSE pastures[Len(pastures)].fences

fences_for_pasture_group(pastures) ==
    UNION {pastures[i].fences : i \in 1..Len(pastures)}

\* The property Player.fences.
fences(p) == fences_for_pasture_group(p.pastures)

\* The spaces of a list of pastures, and of a list of fields.
pasture_spaces(pastures) == UNION {pastures[i].spaces : i \in 1..Len(pastures)}

field_spaces(fields) == {fields[i].space : i \in 1..Len(fields)}

\* self.occupied: the lists the constructor stored, by object type.  The
\* room, stable and field lists are the ones the operations extend in
\* place; the pasture list is the one the constructor was given.
occupied(p) ==
    [room |-> Range(p.rooms),
     pasture |-> pasture_spaces(p.occupied_pasture),
     stable |-> Range(p.stables),
     field |-> field_spaces(p.fields)]

\* The checks of _check_spatial_objects on the list `spaces` of the spaces
\* of the new objects, `taken` being the spaces of the objects of
\* self.occupied whose type is not omitted.
check_spaces(spaces, taken) ==
    IF \E i \in 1..Len(spaces) : index_check_fails(spaces[i], shape)
    THEN "IndexError"
    ELSE IF \E i, j \in 1..Len(spaces) : i # j /\ spaces[i] = spaces[j]
    THEN "AgricolaImpossible"
    ELSE IF \E i \in 1..Len(spaces) : spaces[i] \in taken
    THEN "AgricolaImpossible"
    ELSE "ok"

\* Player._check_spatial_objects(objects, name, omit) for objects given as
\* the list of their spaces (each object's spaces are distinct).
_check_spatial_objects(p, spaces, omit) ==
    check_spaces(spaces, UNION {occupied(p)[t] : t \in DOMAIN occupied(p) \ omit})

(***************************************************************************)
(* Player: the operations                                                  *)
(*                                                                         *)
(* Each operator gives [p |-> the player after the call, result |-> "ok"   *)
(* or the exception raised].                                               *)
(***************************************************************************)
house_type == "wood"

room_cost == 5

bread_rates == <<0>>

cooking_rates == [grain |-> 1, veg |-> 1, sheep |-> 0, boar |-> 0, cattle |-> 0]

add_people(p, n) ==
    IF p.attrs["people_avail"] < n
    THEN [p |-> p, result |-> "AgricolaImpossible"]
    ELSE [p |-> [p EXCEPT !.attrs["people"] = @ + n, !.attrs["people_avail"] = @ - n],
          result |-> "ok"]

\* add_resources that drops the names it does not know and adds the rest.
add_resources_known_only(p, res) ==
    transact(p, SelectSeq(res, LAMBDA e : e[1] \in DOMAIN p.resources), <<>>)

\* add_resources(**resources): resources is the dict of keyword arguments.
add_resources(p, res) ==
    IF \E i \in 1..Len(res) : res[i][1] \notin DOMAIN p.resources
    THEN [p |-> p, result |-> "AgricolaPoorlyFormed"]
    ELSE transact(p, res, <<>>)

change_state(p, change, prereq) == transact(p, change, prereq)

\* The names an instance of Player has besides those of RESOURCE_TYPES that
\* _check_animal_capacity and Pasture.capacity read: neither n_free_stables
\* nor n_spaces is defined anywhere, so reading them raises AttributeError.
has_attribute(name) == name \notin {"n_free_stables", "n_spaces"}

\* The stables that stand on no pasture (what the property free_stables
\* counts).
free_stables(p) ==
    Cardinality({i \in 1..Len(p.stables) : p.stables[i] \notin pasture_spaces(p.pastures)})

\* Pasture.capacity(): self.n_spaces * 2**self.n_stables.
capacity(pasture) == Cardinality(pasture.spaces) * 2 ^ pasture.n_stables

\* The call p.capacity() as _check_animal_capacity makes it: the value, or
\* the AttributeError of reading self.n_spaces.
capacity_call(pasture) ==
    IF has_attribute("n_spaces")
    THEN [result |-> "ok", value |-> capacity(pasture)]
    ELSE [result |-> "AttributeError", value |-> 0]

\* Player._check_animal_capacity(animal_counts, n_added, name).
_check_animal_capacity(p, animal_counts) ==
    LET capacities == [i \in 1..(free_stables(p) + 1) |-> 1]
                        \o [i \in 1..Len(p.pastures) |-> capacity(p.pastures[i])]
    IN  IF ~has_attribute("n_free_stables") THEN "AttributeError"
        ELSE IF p.pastures # <<>> /\ ~has_attribute("n_spaces") THEN "AttributeError"
        ELSE IF ~multiset_satisfy(sorted(sorted(animal_counts)), Counter(capacities))
        THEN "AgricolaNotEnoughResources"
        ELSE "ok"

\* The loop of add_animals with animal_counts = self.animals (no copy): the
\* new count is written to the player's dict before the capacity check.
RECURSIVE add_animals_aliased_from(_, _, _)
add_animals_aliased_from(p, given, i) ==
    IF i > Len(given) THEN [p |-> p, result |-> "ok"]
    ELSE LET animal == given[i][1]
             count == given[i][2]
         IN  IF animal \notin DOMAIN p.animals
             THEN [p |-> p, result |-> "AgricolaPoorlyFormed"]
             ELSE LET q == [p EXCEPT !.animals[animal] = @ + count]
                      checked == _check_animal_capacity(
                                    q, <<q.animals["sheep"], q.animals["boar"],
                                         q.animals["cattle"]>>)
                  IN  IF checked # "ok" THEN [p |-> q, result |-> checked]
                      ELSE add_animals_aliased_from(
                               [q EXCEPT !.animals[animal] = @ + count], given, i + 1)

\* The loop of add_animals(**animals) from the i-th keyword argument on.
RECURSIVE add_animals_from(_, _, _)
add_animals_from(p, given, i) ==
    IF i > Len(given) THEN [p |-> p, result |-> "ok"]
    ELSE LET animal == given[i][1]
             count == given[i][2]
         IN  IF animal \notin DOMAIN p.animals
             THEN [p |-> p, result |-> "AgricolaPoorlyFormed"]
             ELSE LET animal_counts == [p.animals EXCEPT ![animal] = @ + count]
                      checked == _check_animal_capacity(
                                    p, <<animal_counts["sheep"], animal_counts["boar"],
                                         animal_counts["cattle"]>>)
                  IN  IF checked # "ok" THEN [p |-> p, result |-> checked]
                      ELSE add_animals_from([p EXCEPT !.animals = animal_counts],
                                            given, i + 1)

add_animals(p, given) == add_animals_from(p, given, 1)

build_rooms(p, spaces) ==
    LET checked == _check_spatial_objects(p, spaces, {})
        n_rooms == Len(spaces)
        done == transact(p, <<<<house_type, (-room_cost) * n_rooms>>,
                              <<"reed", (-2) * n_rooms>>>>, <<>>)
    IN  IF checked # "ok" THEN [p |-> p, result |-> checked]
        ELSE IF ~check_connected_group(Range(p.rooms) \cup Range(spaces))
        THEN [p |-> p, result |-> "AgricolaLogicError"]
        ELSE IF done.result # "ok" THEN done
        ELSE [p |-> [done.p EXCEPT !.rooms = @ \o spaces], result |-> "ok"]

\* The last lines of build_pastures: the transaction for n_fences new
\* fences, and the new list of pastures.
pay_fences(p, pastures, n_fences) ==
    LET done == transact(p, <<<<"wood", -n_fences>>, <<"fences_avail", -n_fences>>>>, <<>>)
    IN  IF done.result # "ok" THEN done
        ELSE [p |-> [done.p EXCEPT !.pastures = p.pastures \o pastures], result |-> "ok"]

\* place_pastures without the subtraction of the existing fences: every
\* fence of the new pastures is charged.
place_pastures_all_fences(p, pastures) ==
    LET checked(i) == _check_spatial_objects(p, SetToSeq(pastures[i].spaces), {"stable"})
    IN  IF \E i \in 1..Len(pastures) : checked(i) # "ok"
        THEN [p |-> p,
              result |-> checked(CHOOSE i \in 1..Len(pastures) :
                            checked(i) # "ok" /\ \A j \in 1..(i - 1) : checked(j) = "ok")]
        ELSE IF ~check_connected_group(pasture_spaces(p.pastures \o pastures))
        THEN [p |-> p, result |-> "AgricolaLogicError"]
        ELSE pay_fences(p, pastures, Cardinality(fences_for_pasture_group(pastures)))

\* build_pastures from its second line on: pastures are the Pasture objects
\* made of the lists given.
place_pastures(p, pastures) ==
    LET checked(i) == _check_spatial_objects(p, SetToSeq(pastures[i].spaces), {"stable"})
    IN  IF \E i \in 1..Len(pastures) : checked(i) # "ok"
        THEN [p |-> p,
              result |-> checked(CHOOSE i \in 1..Len(pastures) :
                            checked(i) # "ok" /\ \A j \in 1..(i - 1) : checked(j) = "ok")]
        ELSE IF ~check_connected_group(pasture_spaces(p.pastures \o pastures))
        THEN [p |-> p, result |-> "AgricolaLogicError"]
        ELSE pay_fences(p, pastures,
                        Cardinality(fences_for_pasture_group(pastures)
                                        \ fences_for_pasture_group(p.pastures)))

\* build_pastures(pastures): pastures is a list of non-empty lists of spaces.
build_pastures(p, groups) ==
    place_pastures(p, [i \in 1..Len(groups) |-> Pasture(groups[i])])

\* build_stables whose change dict lacks stables_avail: only the wood is
\* taken.
build_stables_wood_only(p, spaces, unit_cost) ==
    LET checked == _check_spatial_objects(p, spaces, {"pasture"})
        done == transact(p, <<<<"wood", (-unit_cost) * Len(spaces)>>>>, <<>>)
    IN  IF checked # "ok" THEN [p |-> p, result |-> checked]
        ELSE IF ~check_connected_group(Range(p.stables) \cup Range(spaces))
        THEN [p |-> p, result |-> "AgricolaLogicError"]
        ELSE IF done.result # "ok" THEN done
        ELSE [p |-> [done.p EXCEPT !.stables = @ \o spaces], result |-> "ok"]

\* build_stables(spaces, unit_cost): spaces is a non-empty list of spaces.
build_stables(p, spaces, unit_cost) ==
    LET checked == _check_spatial_objects(p, spaces, {"pasture"})
        n_stables == Len(spaces)
        done == transact(p, <<<<"wood", (-unit_cost) * n_stables>>,
                              <<"stables_avail", -n_stables>>>>, <<>>)
    IN  IF checked # "ok" THEN [p |-> p, result |-> checked]
        ELSE IF ~check_connected_group(Range(p.stables) \cup Range(spaces))
        THEN [p |-> p, result |-> "AgricolaLogicError"]
        ELSE IF done.result # "ok" THEN done
        ELSE [p |-> [done.p EXCEPT !.stables = @ \o spaces], result |-> "ok"]

\* plow_fields(spaces): spaces is a non-empty list of spaces.
plow_fields(p, spaces) ==
    LET checked == _check_spatial_objects(p, spaces, {})
    IN  IF checked # "ok" THEN [p |-> p, result |-> checked]
        ELSE IF ~check_connected_group(field_spaces(p.fields) \cup Range(spaces))
        THEN [p |-> p, result |-> "AgricolaLogicError"]
        ELSE [p |-> [p EXCEPT !.fields = @ \o [i \in 1..Len(spaces) |-> Field(spaces[i])]],
              result |-> "ok"]

\* The planting loops of sow: the fields that are empty, in list order, get
\* grain (the first n_grain of them) and then veg (the next n_veg);
\* next(empty_fields) raises StopIteration when they run out.
plant(fields, n_grain, n_veg) ==
    LET empty == SelectSeq([i \in 1..Len(fields) |-> i], LAMBDA i : fields[i].n_items = 0)
        g == Max2(n_grain, 0)
        v == Max2(n_veg, 0)
        planted == [i \in 1..Len(fields) |->
                      IF \E j \in 1..Len(empty) : empty[j] = i /\ j <= g
                      THEN [fields[i] EXCEPT !.n_items = 3, !.kind = "grain"]
                      ELSE IF \E j \in 1..Len(empty) : empty[j] = i /\ j <= g + v
                      THEN [fields[i] EXCEPT !.n_items = 2, !.kind = "veg"]
                      ELSE fields[i]]
    IN  [fields |-> planted,
         result |-> IF g + v > Len(empty) THEN "StopIteration" ELSE "ok"]

\* sow without its prereq dict: the empty fields are not counted before
\* the grain and the veg are taken.
sow_without_prereq(p, n_grain, n_veg) ==
    LET done == transact(p, <<<<"grain", -n_grain>>, <<"veg", -n_veg>>>>, <<>>)
        planted == plant(done.p.fields, n_grain, n_veg)
    IN  IF done.result # "ok" THEN done
        ELSE [p |-> [done.p EXCEPT !.fields = planted.fields], result |-> planted.result]

sow(p, n_grain, n_veg) ==
    LET done == transact(p, <<<<"grain", -n_grain>>, <<"veg", -n_veg>>>>,
                         <<<<"empty_fields", n_grain + n_veg>>>>)
        planted == plant(done.p.fields, n_grain, n_veg)
    IN  IF done.result # "ok" THEN done
        ELSE [p |-> [done.p EXCEPT !.fields = planted.fields], result |-> planted.result]

\* bake_bread(n): its first line evaluates self.bread_rates - 1, a list
\* minus an int, which raises TypeError.
bake_bread(p, n) == [p |-> p, result |-> "TypeError"]

\* The loop of cook_food over counts, from its i-th entry on: the change
\* dict it builds.
RECURSIVE cook_change(_, _, _)
cook_change(counts, change, i) ==
    IF i > Len(counts) THEN change
    ELSE LET r == counts[i][1]
             with_r == Put(change, r, -counts[i][2])
         IN  cook_change(counts,
                         Put(with_r, "food", Get(with_r, "food", 0) + cooking_rates[r]),
                         i + 1)

cook_food(p, counts) ==
    IF \E i \in 1..Len(counts) : counts[i][1] \notin DOMAIN cooking_rates
    THEN [p |-> p, result |-> "KeyError"]
    ELSE transact(p, cook_change(counts, <<<<"food", 0>>>>, 1), <<>>)

(***************************************************************************)
(* The player under study and the calls made on it                         *)
(***************************************************************************)
\* Bounds of the model: no call is made that would raise a good or an
\* animal count above MaxRes, or make the list of pastures longer than
\* MaxPastures.
MaxRes == 2

MaxPastures == 2

\* Bounds of the capacity solver's arguments: requirements of 0..MaxReq,
\* at most MaxLen of them; capacities of 1..MaxCap, each at most MaxCount
\* times.
MaxReq == 3

MaxLen == 3

MaxCap == 3

MaxCount == 2

\* Player(name, shape=shape, rooms=[Room((0, 0))]): every other argument at
\* its default.
NewPlayer ==
    [resources |-> [r \in GOODS |-> 0],
     animals |-> [a \in ANIMALS |-> 0],
     attrs |-> [people |-> 2, people_avail |-> 3, fences_avail |-> 15,
                stables_avail |-> 4],
     rooms |-> << <<0, 0>> >>,
     fields |-> <<>>,
     pastures |-> <<>>,
     stables |-> <<>>,
     occupied_pasture |-> <<>>]

\* Player(name, shape=shape, rooms=[Room((0, 0))], wood=6, reed=2, grain=1,
\* veg=1): a player who can pay for some buildings.
EndowedPlayer ==
    [NewPlayer EXCEPT !.resources = [r \in GOODS |->
        CASE r = "wood" -> 6
          [] r = "reed" -> 2
          [] r = "grain" -> 1
          [] r = "veg" -> 1
          [] OTHER -> 0]]

\* The call that takes p to q raises no stored number above MaxRes.
Bounded(p, q) ==
    /\ \A k \in DOMAIN q.attrs :
            IF q.attrs[k] <= MaxRes THEN TRUE ELSE q.attrs[k] <= getattr(p, k)
    /\ \A a \in DOMAIN q.animals :
            IF q.animals[a] <= MaxRes THEN TRUE ELSE q.animals[a] <= p.animals[a]

NoCall == [op |-> "none", args |-> <<>>, result |-> "none"]

\* A call of operation op with arguments args that ended as `ended` says.
Call(op, args, ended) ==
    \E r \in {ended} :
        /\ Bounded(Self, r.p)
        /\ Len(r.p.pastures) <= MaxPastures
        /\ Store(r.p)
        /\ last' = [op |-> op, args |-> args, result |-> r.result]
        /\ UNCHANGED solverVars

InitPlayer(p) ==
    /\ resources = p.resources
    /\ animals = p.animals
    /\ attrs = p.attrs
    /\ _rooms = p.rooms
    /\ _fields = p.fields
    /\ _pastures = p.pastures
    /\ _stables = p.stables
    /\ occupied_pasture = p.occupied_pasture
    /\ last = NoCall

NoSolver ==
    /\ constraints = <<>>
    /\ multiset = <<>>
    /\ solved = "unused"

(***************************************************************************)
(* The actions: one per public operation, over the arguments given         *)
(***************************************************************************)
AddPeople(Args) ==
    \E n \in Args : Call("add_people", n, add_people(Self, n))

AddResources(Args) ==
    \E res \in Args : Call("add_resources", res, add_resources(Self, res))

ChangeState(Args) ==
    \E a \in Args : Call("change_state", a, change_state(Self, a.change, a.prereq))

\* A card's PlayerStateChange applied to the player (play_occupation,
\* play_minor_improvement and play_major_improvement call it).
CheckAndApply(Args) ==
    \E a \in Args :
        LET sc == PlayerStateChange(a.change, a.prereq, a.n_change_fns, a.n_prereq_fns)
        IN  /\ ~sc.raised
            /\ Call("check_and_apply", a, check_and_apply(Self, sc))

AddAnimals(Args) ==
    \E given \in Args : Call("add_animals", given, add_animals(Self, given))

CookFood(Args) ==
    \E counts \in Args : Call("cook_food", counts, cook_food(Self, counts))

BakeBread(Args) ==
    \E n \in Args : Call("bake_bread", n, bake_bread(Self, n))

Sow(Args) ==
    \E a \in Args : Call("sow", a, sow(Self, a[1], a[2]))

\* What is kept of a building call's arguments: whether some cell of the
\* list lies off the board.
Noted(spaces) ==
    [off_board |-> \E i \in 1..Len(spaces) : index_check_fails(spaces[i], shape)]

\* The cells of a list of pasture groups, in list order.
RECURSIVE Flatten(_)
Flatten(groups) == IF groups = <<>> THEN <<>> ELSE Head(groups) \o Flatten(Tail(groups))

BuildRooms(Args) ==
    \E spaces \in Args : Call("build_rooms", Noted(spaces), build_rooms(Self, spaces))

BuildPastures(Args) ==
    \E groups \in Args : Call("build_pastures", Noted(Flatten(groups)), build_pastures(Self, groups))

BuildStables(Args, Costs) ==
    \E spaces \in Args, unit_cost \in Costs :
        Call("build_stables", Noted(spaces), build_stables(Self, spaces, unit_cost))

PlowFields(Args) ==
    \E spaces \in Args : Call("plow_fields", Noted(spaces), plow_fields(Self, spaces))

(***************************************************************************)
(* The arguments of the calls                                              *)
(***************************************************************************)
\* The spaces of the board, and with them one space below the last row.
Spaces == (0..(shape[1] - 1)) \X (0..(shape[2] - 1))

AnySpaces == Spaces \cup {<<shape[1], 0>>}

\* Building calls: lists of up to two spaces.
RoomArgs == SeqsOf(AnySpaces, 0, 2)

StableArgs == SeqsOf(AnySpaces, 1, 2)

StableCosts == {2}

FieldArgs == SeqsOf(AnySpaces, 1, 2)

\* Lists of one or two pastures of two spaces in all, each pasture a
\* non-empty list of distinct spaces.
PastureArgs ==
    {groups \in SeqsOf(SeqsOf(AnySpaces, 1, 2), 1, 2) :
        /\ SumSeq([i \in 1..Len(groups) |-> Len(groups[i])]) <= 2
        /\ \A i \in 1..Len(groups) : Cardinality(Range(groups[i])) = Len(groups[i])}

\* The calls made on the endowed player when every operation is called:
\* buildings of one space, fields in the second row.
OneSpace == {<<s>> : s \in AnySpaces}

OnePasture == {<<g>> : g \in OneSpace}

SomeFields == {<< <<1, 0>> >>, << <<1, 1>> >>, << <<0, 1>>, <<1, 0>> >>}

SomePeople == {4}

SomeGoods == {<<<<"wood", -6>>>>, <<<<"reed", -3>>>>}

SomeChanges ==
    {[change |-> <<<<"wood", -6>>>>, prereq |-> <<<<"reed", 1>>>>],
     [change |-> <<<<"wood", -1>>>>, prereq |-> <<<<"rooms", 3>>>>]}

SomeCooking == {<<<<"grain", 1>>>>, <<<<"sheep", 1>>>>}

SomeBaking == {1}

SomeSowing == {<<1, 0>>, <<0, 1>>, <<1, 1>>}

SomeAnimals == {<<<<"sheep", 1>>>>, <<<<"sheep", 1>>, <<"boar", 1>>>>}

SomeCards ==
    [change : {<<<<"food", 1>>>>}, prereq : {<<<<"reed", 2>>>>},
     n_change_fns : {0}, n_prereq_fns : 0..1]

\* The calls made on the default player.
LedgerPeopleArgs == {2, 4}

LedgerAddArgs ==
    {<<<<"wood", 1>>>>, <<<<"wood", -1>>>>, <<<<"grain", 1>>>>,
     <<<<"wood", 1>>, <<"grain", -1>>>>, <<<<"wood", 1>>, <<"dog", 1>>>>}

LedgerChangeArgs ==
    [change : {<<<<"wood", -1>>>>, <<<<"wood", -2>>>>, <<<<"wood", -1>>, <<"rooms", 1>>>>},
     prereq : {<<>>, <<<<"wood", -1>>>>, <<<<"wood", 1>>>>, <<<<"wood", 2>>>>,
               <<<<"wood", 3>>>>, <<<<"rooms", 3>>>>}]

LedgerApplyArgs ==
    [change : {<<<<"food", 1>>>>},
     prereq : {<<>>, <<<<"wood", 1>>>>},
     n_change_fns : 0..1, n_prereq_fns : 0..1]

LedgerCookArgs ==
    {<<<<"grain", 1>>>>, <<<<"grain", 2>>>>, <<<<"sheep", 1>>>>,
     <<<<"grain", 1>>, <<"sheep", 0>>>>, <<<<"wood", 1>>>>}

LedgerBakeArgs == {1, 2}

LedgerSowArgs == {<<0, 0>>, <<1, 0>>, <<0, 1>>}

LedgerAnimalArgs ==
    {<<<<"sheep", 1>>>>, <<<<"boar", 1>>>>, <<<<"sheep", 2>>>>, <<<<"sheep", -1>>>>,
     <<<<"sheep", 1>>, <<"boar", 1>>>>, <<<<"sheep", 1>>, <<"dog", 1>>>>}

\* The capacity solver: requirement lists and capacity multisets.
SolverConstraints == SeqsOf(0..MaxReq, 0, MaxLen)

SolverMultisets ==
    UNION {[keys -> 1..MaxCount] : keys \in SUBSET (1..MaxCap)}

(***************************************************************************)
(* The specifications                                                      *)
(***************************************************************************)
\* Every public operation, and a card's state change, on the endowed player.
Init == InitPlayer(EndowedPlayer) /\ NoSolver

Next ==
    \/ BuildRooms(OneSpace)
    \/ BuildPastures(OnePasture)
    \/ BuildStables(OneSpace, StableCosts)
    \/ PlowFields(SomeFields)
    \/ Sow(SomeSowing)
    \/ AddPeople(SomePeople)
    \/ AddResources(SomeGoods)
    \/ ChangeState(SomeChanges)
    \/ CookFood(SomeCooking)
    \/ BakeBread(SomeBaking)
    \/ AddAnimals(SomeAnimals)
    \/ CheckAndApply(SomeCards)

Spec == Init /\ [][Next]_vars

\* The building operations, called on the endowed player.
NextBuild ==
    \/ BuildRooms(RoomArgs)
    \/ BuildPastures(PastureArgs)
    \/ BuildStables(StableArgs, StableCosts)
    \/ PlowFields(FieldArgs)

SpecBuild == Init /\ [][NextBuild]_vars

\* The operations that change the numbers only, called on the default
\* player.
InitLedger == InitPlayer(NewPlayer) /\ NoSolver

NextLedger ==
    \/ AddPeople(LedgerPeopleArgs)
    \/ AddResources(LedgerAddArgs)
    \/ ChangeState(LedgerChangeArgs)
    \/ CheckAndApply(LedgerApplyArgs)
    \/ CookFood(LedgerCookArgs)
    \/ BakeBread(LedgerBakeArgs)
    \/ Sow(LedgerSowArgs)
    \/ AddAnimals(LedgerAnimalArgs)

SpecLedger == InitLedger /\ [][NextLedger]_vars

\* The capacity solver, called once on a requirement list and a multiset.
InitSolver ==
    /\ InitPlayer(NewPlayer)
    /\ constraints \in SolverConstraints
    /\ multiset \in SolverMultisets
    /\ solved = "none"

Solve ==
    /\ solved = "none"
    /\ solved' = IF multiset_satisfy(constraints, multiset) THEN "True" ELSE "False"
    /\ UNCHANGED <<boardVars, last, constraints, multiset>>

SpecSolver == InitSolver /\ [][Solve]_vars

(***************************************************************************)
(* The properties                                                          *)
(***************************************************************************)
\* The numbers the player reads back: getattr(player, k).
Value(k) == getattr(Self, k)

TRACKED == GOODS \cup ANIMALS \cup {"people_avail", "fences_avail", "stables_avail"}

\* The cells of each kind of region.
RoomCells == Range(_rooms)

FieldCells == field_spaces(_fields)

PastureCells == pasture_spaces(_pastures)

StableCells == Range(_stables)

\* Every split of the cells in two has a cell on each side that are
\* neighbours along a row or a column.
Connected(cells) ==
    \A part \in SUBSET cells :
        (part # {} /\ part # cells) =>
            \E a \in part, b \in cells \ part :
                Abs(a[1] - b[1]) + Abs(a[2] - b[2]) = 1

\* C1: in every reachable state every good, every animal count and each of
\* people_avail, fences_avail and stables_avail is at least 0.
C1_NonNegative == \A k \in TRACKED : Value(k) >= 0

\* The last call stopped in check_and_apply before its changes: a resource
\* precondition was unmet, or it came to a prerequisite callback.
Rejected(call) ==
    \/ call.result = "AgricolaNotEnoughResources"
    \/ /\ call.op = "check_and_apply"
       /\ call.args.n_prereq_fns > 0
       /\ call.result # "ok"

\* C2: a call that check_and_apply rejects leaves every number and every
\* list of rooms, fields, pastures and stables as it was before the call.
C2_RejectedChangesNothing == [][Rejected(last') => UNCHANGED boardVars]_vars

\* A rejected call of each operation that reaches check_and_apply has been
\* seen: here a rejected build_rooms on a board that has a field.
C2_Witness ==
    /\ last.op = "build_rooms"
    /\ last.result = "AgricolaNotEnoughResources"
    /\ _fields # <<>>

\* C3: no cell belongs to regions of two different kinds, except that a
\* stable's cell may also be a pasture cell.
C3_NoOverlap ==
    /\ RoomCells \cap FieldCells = {}
    /\ RoomCells \cap PastureCells = {}
    /\ RoomCells \cap StableCells = {}
    /\ FieldCells \cap PastureCells = {}
    /\ FieldCells \cap StableCells = {}

\* C4: no cell is claimed by two regions of the same kind.
C4_NoDoubleClaim ==
    /\ Cardinality(RoomCells) = Len(_rooms)
    /\ Cardinality(StableCells) = Len(_stables)
    /\ Cardinality(FieldCells) = Len(_fields)
    /\ \A i, j \in 1..Len(_pastures) :
          i # j => _pastures[i].spaces \cap _pastures[j].spaces = {}

\* C5: the room cells, the field cells and the pasture cells are each
\* connected (or empty) after every call, and a call refused for making a
\* group disconnected changes nothing.
C5_GroupsStayConnected ==
    [][/\ Connected(RoomCells')
       /\ Connected(FieldCells')
       /\ Connected(PastureCells')
       /\ last'.result = "AgricolaLogicError" => UNCHANGED boardVars]_vars

\* A plow_fields call was refused for its disconnected cells on a board
\* that has a field and a pasture.
C5_Witness ==
    /\ last.op = "plow_fields"
    /\ last.result = "AgricolaLogicError"
    /\ _fields # <<>>
    /\ _pastures # <<>>

\* C6: an add_animals call that fails leaves every animal count as it was.
C6_AllOrNothing ==
    [][(last'.op = "add_animals" /\ last'.result # "ok") =>
          /\ animals' = animals
          /\ \A a \in ANIMALS : Value(a)' = Value(a)]_vars

\* An add_animals call naming two kinds has failed.
C6_Witness ==
    /\ last.op = "add_animals"
    /\ Len(last.args) = 2
    /\ last.result \notin {"ok", "AgricolaPoorlyFormed"}

\* The capacity units of a multiset, one entry per unit.
RECURSIVE Units(_)
Units(ms) ==
    IF DOMAIN ms = {} THEN <<>>
    ELSE LET k == CHOOSE c \in DOMAIN ms : TRUE
         IN  [i \in 1..ms[k] |-> k] \o Units([c \in DOMAIN ms \ {k} |-> ms[c]])

\* The units can be handed out, each to at most one requirement, so that
\* every requirement gets at least what it still needs.
RECURSIVE CanAssign(_, _)
CanAssign(need, units) ==
    IF \A i \in 1..Len(need) : need[i] <= 0 THEN TRUE
    ELSE IF units = <<>> THEN FALSE
    ELSE \/ \E i \in 1..Len(need) :
                need[i] > 0 /\ CanAssign([need EXCEPT ![i] = @ - Head(units)], Tail(units))
         \/ CanAssign(need, Tail(units))

\* The lists that are cs with two of its entries exchanged (every other
\* order of cs is reached by such exchanges).
Reorderings(cs) ==
    {[cs EXCEPT ![i] = cs[j], ![j] = cs[i]] : i, j \in 1..Len(cs)}

\* C7: multiset_satisfy returns true exactly when the capacity units can be
\* assigned to the requirements, and the answer is the same for every order
\* of the requirements.
C7_SatisfyIffAssignable ==
    solved # "none" =>
        /\ (solved = "True") <=> CanAssign(constraints, Units(multiset))
        /\ \A cs \in Reorderings(constraints) :
              multiset_satisfy(cs, multiset) <=> (solved = "True")

\* The solver has refused requirements whose sum the capacities cover.
C7_Witness ==
    /\ solved = "False"
    /\ Len(constraints) >= 2
    /\ multiset_weight(multiset) >= SumSeq(constraints)

\* The call of C8: requirements [2, 2] on capacities {1, 1, 2}.
C8_Call ==
    /\ constraints = <<2, 2>>
    /\ multiset = Counter(<<1, 1, 2>>)
    /\ solved # "none"

\* C8 as stated: with capacities {1, 1, 2} and requirements [2, 2] the
\* solver reports unsatisfiable.
C8_Unsatisfiable == C8_Call => solved = "False"

\* C8: with capacities {1, 1, 2} and requirements [2, 2] the solver reports
\* satisfiable (the two 1s cover one requirement, the 2 the other).
C8_Satisfiable == C8_Call => solved = "True"

C8_Witness == C8_Call /\ CanAssign(constraints, Units(multiset))

\* C9: add_animals(sheep=1) on a board with no animals, no stables and no
\* pastures succeeds.
C9_FirstSheepHoused ==
    (/\ last.op = "add_animals"
     /\ last.args = <<<<"sheep", 1>>>>
     /\ _stables = <<>>
     /\ _pastures = <<>>
     /\ \A a \in ANIMALS : Value(a) = 0)
        => last.result = "ok"

\* C10: a change_state call is rejected for its resources only when some
\* negative delta exceeds the current value or some explicit minimum is not
\* met (a rejected call leaves the values as they were).
C10_RejectedOnlyWhenUnmet ==
    (last.op = "change_state" /\ last.result = "AgricolaNotEnoughResources") =>
        \/ \E i \in 1..Len(last.args.change) :
              /\ last.args.change[i][2] < 0
              /\ Value(last.args.change[i][1]) < -last.args.change[i][2]
        \/ \E i \in 1..Len(last.args.prereq) :
              Value(last.args.prereq[i][1]) < last.args.prereq[i][2]

\* C11: a transaction on accepted names either is applied whole (the call
\* ends ok) or leaves every number as it was: it never stops with part of
\* its deltas added or with a side-effect callback not run.
C11_AppliedWholeOrNotAtAll ==
    [][(last'.op \in {"change_state", "check_and_apply"} /\ last'.result # "ok")
          => UNCHANGED boardVars]_vars

\* The numbers of a player besides the two named: they are as before the
\* step.
OtherValuesUnchanged(names) ==
    \A k \in (TRACKED \cup {"people"}) \ names : Value(k)' = Value(k)

\* The number of empty fields before field i in the list.
EmptyBefore(i) == Cardinality({j \in 1..(i - 1) : _fields[j].n_items = 0})

\* The list of fields after n_grain and n_veg were sown on the empty fields
\* in list order.
Sown(n_grain, n_veg) ==
    [i \in 1..Len(_fields) |->
        IF _fields[i].n_items # 0 THEN _fields[i]
        ELSE IF EmptyBefore(i) < n_grain
        THEN [space |-> _fields[i].space, n_items |-> 3, kind |-> "grain"]
        ELSE IF EmptyBefore(i) < n_grain + n_veg
        THEN [space |-> _fields[i].space, n_items |-> 2, kind |-> "veg"]
        ELSE _fields[i]]

\* sow(n_grain, n_veg) can be paid and placed in the current state.
CanSow(n_grain, n_veg) ==
    /\ Cardinality({i \in 1..Len(_fields) : _fields[i].n_items = 0}) >= n_grain + n_veg
    /\ Value("grain") >= n_grain
    /\ Value("veg") >= n_veg

\* C12: sow(n_grain, n_veg) succeeds exactly when the empty fields, the
\* grain and the veg suffice; then grain and veg drop by what was sown, the
\* first empty fields hold grain (3) and the next veg (2), and nothing else
\* changes; otherwise nothing changes at all.
C12_SowFrame ==
    [][last'.op = "sow" =>
        IF CanSow(last'.args[1], last'.args[2])
        THEN /\ last'.result = "ok"
             /\ Value("grain")' = Value("grain") - last'.args[1]
             /\ Value("veg")' = Value("veg") - last'.args[2]
             /\ OtherValuesUnchanged({"grain", "veg"})
             /\ _fields' = Sown(last'.args[1], last'.args[2])
             /\ UNCHANGED <<_rooms, _pastures, _stables>>
        ELSE /\ last'.result # "ok"
             /\ UNCHANGED boardVars]_vars

\* One grain and one veg were sown on a board with two empty fields.
C12_Witness ==
    /\ last.op = "sow"
    /\ last.args = <<1, 1>>
    /\ last.result = "ok"
    /\ \E i, j \in 1..Len(_fields) : _fields[i].kind = "grain" /\ _fields[j].kind = "veg"

\* The number of stables that stand on a cell of the pasture.
StablesOn(pasture) ==
    Cardinality({i \in 1..Len(_stables) : _stables[i] \in pasture.spaces})

\* C13: the capacity add_animals uses for a pasture is the number of its
\* cells times 2 to the number of stables standing on its cells.
C13_StablesMultiplyCapacity ==
    \A i \in 1..Len(_pastures) :
        /\ capacity_call(_pastures[i]).result = "ok"
        /\ capacity_call(_pastures[i]).value =
              Cardinality(_pastures[i].spaces) * 2 ^ StablesOn(_pastures[i])

(***************************************************************************)
(* Fencing: the pasture and stable operations on a player with wood to     *)
(* spare.                                                                  *)
(***************************************************************************)
\* Player(name, shape=shape, rooms=[Room((0, 0))], wood=9, reed=2).
FencingPlayer == [NewPlayer EXCEPT !.resources["wood"] = 9, !.resources["reed"] = 2]

InitFence == InitPlayer(FencingPlayer) /\ NoSolver

NextFence ==
    \/ BuildPastures(PastureArgs)
    \/ BuildStables(OneSpace, StableCosts)

SpecFence == InitFence /\ [][NextFence]_vars

\* The sides of a cell, each a pair of grid corners.
Sides(c) ==
    {<<c, <<c[1], c[2] + 1>>>>, <<c, <<c[1] + 1, c[2]>>>>,
     <<<<c[1], c[2] + 1>>, <<c[1] + 1, c[2] + 1>>>>,
     <<<<c[1] + 1, c[2]>>, <<c[1] + 1, c[2] + 1>>>>}

\* The outer fence of a set of cells: the sides that belong to one cell only.
Boundary(cells) ==
    {e \in UNION {Sides(c) : c \in cells} :
        Cardinality({c \in cells : e \in Sides(c)}) = 1}

\* The board's fence set: every pasture's outer fence, each edge once.
BoardFences == UNION {Boundary(_pastures[i].spaces) : i \in 1..Len(_pastures)}

\* C14: a successful build_pastures call lowers wood and fences_avail by the
\* number of fence edges it adds to the board's fence set, and only when
\* both cover that number; so the fences spent are the board's fence set; a
\* call that fails adds no pasture and spends nothing.
C14_FencesPaidOnce ==
    [][/\ FencingPlayer.attrs["fences_avail"] - Value("fences_avail")'
              = Cardinality(BoardFences')
       /\ (last'.op = "build_pastures" /\ last'.result = "ok") =>
              /\ Value("wood")' = Value("wood") - (Cardinality(BoardFences') - Cardinality(BoardFences))
              /\ Value("fences_avail")' =
                    Value("fences_avail") - (Cardinality(BoardFences') - Cardinality(BoardFences))
              /\ Value("wood")' >= 0
              /\ Value("fences_avail")' >= 0
       /\ (last'.op = "build_pastures" /\ last'.result # "ok") => UNCHANGED boardVars]_vars

\* A pasture was built next to an earlier one, the fence between them paid
\* once: two one-cell pastures with seven fences.
C14_Witness ==
    /\ last.op = "build_pastures"
    /\ last.result = "ok"
    /\ Len(_pastures) = 2
    /\ Cardinality(BoardFences) = 7
    /\ Value("wood") = 2

\* C15: with pastures on disjoint cells, built one after the other, the
\* board's fence set is the union of the fence sets derived for each alone.
C15_FencesAreUnion ==
    (\A i, j \in 1..Len(_pastures) :
        i # j => _pastures[i].spaces \cap _pastures[j].spaces = {})
    => fences(Self) = UNION {Boundary(_pastures[i].spaces) : i \in 1..Len(_pastures)}

\* A pasture of two cells and then a pasture of one cell beside it were
\* built (one call takes two cells at most).
C15_Witness ==
    /\ Len(_pastures) = 2
    /\ Cardinality(_pastures[1].spaces) = 2
    /\ Cardinality(_pastures[2].spaces) = 1
    /\ _pastures[1].spaces \cap _pastures[2].spaces = {}
    /\ Cardinality(fences(Self)) = 9

\* The building operations, one cell at a time (rooms: up to two), on the
\* player with wood to spare.
NextHouse ==
    \/ BuildRooms(RoomArgs)
    \/ BuildPastures(OnePasture)
    \/ BuildStables(OneSpace, StableCosts)
    \/ PlowFields(OneSpace)

SpecHouse == InitFence /\ [][NextHouse]_vars

\* The cells that hold a room after the step and held none before it.
NewRoomCells == RoomCells' \ RoomCells

\* C16: a build_rooms call that succeeds has put its rooms on cells no
\* region held, next to the house, and has taken room_cost wood and 2 reed
\* for each, leaving fields, pastures, stables and every other number as
\* they were; a call that fails changes nothing.
C16_RoomsFrame ==
    [][last'.op = "build_rooms" =>
        IF last'.result = "ok"
        THEN /\ NewRoomCells \cap (FieldCells \cup PastureCells \cup StableCells) = {}
             /\ Len(_rooms') = Len(_rooms) + Cardinality(NewRoomCells)
             /\ Connected(RoomCells')
             /\ Value(house_type)' =
                   Value(house_type) - room_cost * Cardinality(NewRoomCells)
             /\ Value("reed")' = Value("reed") - 2 * Cardinality(NewRoomCells)
             /\ OtherValuesUnchanged({house_type, "reed"})
             /\ UNCHANGED <<_fields, _pastures, _stables>>
        ELSE UNCHANGED boardVars]_vars

\* The cells that hold a stable after the step and held none before it.
NewStableCells == StableCells' \ StableCells

\* The unit cost the stables are built at.
StableCost == CHOOSE c \in StableCosts : TRUE

\* C17: a build_stables call that succeeds has put its stables on cells
\* that held no room, field or stable, and has taken unit_cost wood and one
\* of stables_avail for each; stables_avail plus the number of stables never
\* changes; a call that fails adds no stable and takes nothing.
C17_StablesFrame ==
    [][/\ Value("stables_avail")' + Len(_stables') = FencingPlayer.attrs["stables_avail"]
       /\ last'.op = "build_stables" =>
            IF last'.result = "ok"
            THEN /\ NewStableCells \cap (RoomCells \cup FieldCells) = {}
                 /\ Len(_stables') = Len(_stables) + Cardinality(NewStableCells)
                 /\ NewStableCells # {}
                 /\ Value("wood")' =
                       Value("wood") - StableCost * Cardinality(NewStableCells)
                 /\ Value("stables_avail")' =
                       Value("stables_avail") - Cardinality(NewStableCells)
                 /\ Value("wood")' >= 0
                 /\ Value("stables_avail")' >= 0
                 /\ OtherValuesUnchanged({"wood", "stables_avail"})
                 /\ UNCHANGED <<_rooms, _fields, _pastures>>
            ELSE UNCHANGED boardVars]_vars

\* A stable was built on a cell of an existing pasture.
C17_Witness ==
    /\ last.op = "build_stables"
    /\ last.result = "ok"
    /\ StableCells \cap PastureCells # {}

BUILDING == {"build_rooms", "build_pastures", "build_stables", "plow_fields"}

\* C18: a building call with a cell off the board fails with the
\* out-of-bounds error (IndexError) and changes nothing, whatever its other
\* cells are.
C18_OffBoardIsIndexError ==
    [][(last'.op \in BUILDING /\ last'.args.off_board) =>
          /\ last'.result = "IndexError"
          /\ UNCHANGED boardVars]_vars

\* The names add_resources and add_animals know.
KnownNames(op) == IF op = "add_resources" THEN GOODS ELSE ANIMALS

\* C19: an add_resources or add_animals call that names something unknown
\* fails and leaves every resource and every animal count as it was.
C19_UnknownNameChangesNothing ==
    [][(/\ last'.op \in {"add_resources", "add_animals"}
        /\ \E i \in 1..Len(last'.args) : last'.args[i][1] \notin KnownNames(last'.op))
          => /\ last'.result # "ok"
             /\ UNCHANGED boardVars]_vars

\* add_resources(wood=1, dog=1) was refused for the unknown name.
C19_Witness ==
    /\ last.op = "add_resources"
    /\ last.args = <<<<"wood", 1>>, <<"dog", 1>>>>
    /\ last.result = "AgricolaPoorlyFormed"

(***************************************************************************)
(* Fields: the mutators of Field, called on the fields of a player         *)
(***************************************************************************)
\* Field.plant_grain() and Field.plant_veg(): the field after the call and
\* how the call ended.
plant_grain(f) ==
    IF f.n_items # 0 THEN [f |-> f, result |-> "AgricolaLogicError"]
    ELSE [f |-> [f EXCEPT !.n_items = 3, !.kind = "grain"], result |-> "ok"]

\* plant_veg without its test of is_empty().
plant_veg_unguarded(f) ==
    [f |-> [f EXCEPT !.n_items = 2, !.kind = "veg"], result |-> "ok"]

plant_veg(f) ==
    IF f.n_items # 0 THEN [f |-> f, result |-> "AgricolaLogicError"]
    ELSE [f |-> [f EXCEPT !.n_items = 2, !.kind = "veg"], result |-> "ok"]

\* harvest without its test of n_items > 0.
harvest_unguarded(f) ==
    [f |-> [f EXCEPT !.n_items = @ - 1, !.kind = IF f.n_items - 1 = 0 THEN "None" ELSE @],
     result |-> "True"]

\* Field.harvest(): the result is what the call returned.
harvest(f) ==
    IF f.n_items > 0
    THEN [f |-> [f EXCEPT !.n_items = @ - 1, !.kind = IF f.n_items - 1 = 0 THEN "None" ELSE @],
          result |-> "True"]
    ELSE [f |-> f, result |-> "False"]

\* Player(name, shape=shape, rooms=[Room((0, 0))], fields=[Field((0, 1)),
\* Field((1, 1)), Field((1, 0))]).
FarmingPlayer ==
    [NewPlayer EXCEPT !.fields = <<Field(<<0, 1>>), Field(<<1, 1>>), Field(<<1, 0>>)>>]

\* A call of a Field method on the i-th field of the player.
FieldCall(op, i, ended) ==
    Call(op, i, [p |-> [Self EXCEPT !.fields[i] = ended.f], result |-> ended.result])

PlantGrain == \E i \in 1..Len(_fields) : FieldCall("plant_grain", i, plant_grain(_fields[i]))

PlantVeg == \E i \in 1..Len(_fields) : FieldCall("plant_veg", i, plant_veg(_fields[i]))

Harvest == \E i \in 1..Len(_fields) : FieldCall("harvest", i, harvest(_fields[i]))

InitField == InitPlayer(FarmingPlayer) /\ NoSolver

NextField == PlantGrain \/ PlantVeg \/ Harvest

SpecField == InitField /\ [][NextField]_vars

\* C20 as stated: every field's n_items is 0, 2 or 3.
C20_ZeroTwoOrThree == \A i \in 1..Len(_fields) : _fields[i].n_items \in {0, 2, 3}

\* C20: every field's n_items is 0, 1, 2 or 3 (harvest takes one unit at a
\* time: a grain field goes 3, 2, 1, 0 and a veg field 2, 1, 0).
C20_ZeroToThree == \A i \in 1..Len(_fields) : _fields[i].n_items \in {0, 1, 2, 3}

\* A harvest has left one unit of grain on a field.
C20_Witness ==
    /\ last.op = "harvest"
    /\ last.result = "True"
    /\ _fields[last.args].n_items = 1
    /\ _fields[last.args].kind = "grain"

\* Field(space, n_items, kind): the constructor refuses a count without a
\* kind and a kind without a count.
FieldWith(space, n_items, kind) ==
    IF (n_items # 0) # (kind # "None")
    THEN [f |-> Field(space), result |-> "ValueError"]
    ELSE [f |-> [space |-> space, n_items |-> n_items, kind |-> kind], result |-> "ok"]

\* Bound of the model: a field is built with at most MaxItems units.
MaxItems == 3

\* The fields the constructor accepts on `space`, with a count of 0 to
\* MaxItems.
FieldsOn(space) ==
    {made.f : made \in {m \in {FieldWith(space, n, k) : n \in 0..MaxItems, k \in {"None", "grain", "veg"}} :
                            m.result = "ok"}}

\* Player(name, shape=shape, rooms=[Room((0, 0))], fields=[f1, f2, f3]) with
\* any three fields the constructor accepts on (0, 1), (1, 1) and (1, 0).
InitSown ==
    /\ \E f1 \in FieldsOn(<<0, 1>>), f2 \in FieldsOn(<<1, 1>>), f3 \in FieldsOn(<<1, 0>>) :
            InitPlayer([NewPlayer EXCEPT !.fields = <<f1, f2, f3>>])
    /\ NoSolver

SpecSown == InitSown /\ [][NextField]_vars

\* n_items > 0 exactly when kind is set.
Planted(f) == (f.n_items > 0) <=> (f.kind # "None")

\* What a call of plant_grain, plant_veg or harvest on field f may do, given
\* the field g it leaves and the way it ended.
FieldStep(op, f, g, result) ==
    CASE op = "plant_grain" ->
            IF f.n_items = 0
            THEN result = "ok" /\ g.n_items = 3 /\ g.kind = "grain"
            ELSE result = "AgricolaLogicError" /\ g = f
      [] op = "plant_veg" ->
            IF f.n_items = 0
            THEN result = "ok" /\ g.n_items = 2 /\ g.kind = "veg"
            ELSE result = "AgricolaLogicError" /\ g = f
      [] op = "harvest" ->
            IF f.n_items > 0
            THEN /\ result = "True"
                 /\ g.n_items = f.n_items - 1
                 /\ g.kind = IF g.n_items = 0 THEN "None" ELSE f.kind
            ELSE result = "False" /\ g = f
      [] OTHER -> FALSE

\* C21: on every field n_items > 0 holds exactly when kind is set, before
\* and after every call; planting is rejected unless the field is empty and
\* otherwise sets (3, grain) or (2, veg); harvest returns True and takes one
\* unit when there is one, clears kind exactly when n_items reaches 0, and
\* returns False leaving the field as it was when n_items is 0.  A call
\* touches no other field.
C21_FieldCalls ==
    [][/\ \A i \in 1..Len(_fields) : Planted(_fields[i]) /\ Planted(_fields'[i])
       /\ Len(_fields') = Len(_fields)
       /\ last'.args \in 1..Len(_fields)
       /\ FieldStep(last'.op, _fields[last'.args], _fields'[last'.args], last'.result)
       /\ \A i \in 1..Len(_fields) : i # last'.args => _fields'[i] = _fields[i]
       /\ _fields'[last'.args].space = _fields[last'.args].space]_vars

\* A harvest has taken the last unit of a field and cleared its kind while
\* another field, built with three units of veg, still carries them.
C21_Witness ==
    /\ last.op = "harvest"
    /\ last.result = "True"
    /\ _fields[last.args].n_items = 0
    /\ _fields[last.args].kind = "None"
    /\ \E i \in 1..Len(_fields) : _fields[i].kind = "veg" /\ _fields[i].n_items = 3

(***************************************************************************)
(* Pastures: the constructor of Pasture, called on any list of spaces      *)
(***************************************************************************)
\* Bound of the model: a pasture is built from a list of at most MaxCells
\* spaces.
MaxCells == 4

\* Pasture(space) with one space instead of a list: the constructor wraps
\* it in a list.
PastureAt(space) == Pasture(<<space>>)

\* Player(name, shape=shape, rooms=[Room((0, 0))], pastures=[pasture]): the
\* pasture just built, held as a player holds it.
Holding(pasture) == [p |-> [NewPlayer EXCEPT !.pastures = <<pasture>>], result |-> "ok"]

\* The list of spaces a pasture is about to be built from: any list of
\* spaces of the board, repeats allowed.
InitPasture ==
    /\ \E spaces \in SeqsOf(Spaces, 1, MaxCells) :
            last = [op |-> "none", args |-> spaces, result |-> "none"]
    /\ resources = NewPlayer.resources
    /\ animals = NewPlayer.animals
    /\ attrs = NewPlayer.attrs
    /\ _rooms = NewPlayer.rooms
    /\ _fields = NewPlayer.fields
    /\ _pastures = NewPlayer.pastures
    /\ _stables = NewPlayer.stables
    /\ occupied_pasture = NewPlayer.occupied_pasture
    /\ NoSolver

\* Pasture(spaces) for the list of spaces.
MakePasture ==
    /\ last.op = "none"
    /\ Call("Pasture", last.args, Holding(Pasture(last.args)))

\* Pasture(space) for the one space of the list.
MakePastureAt ==
    /\ last.op = "none"
    /\ Len(last.args) = 1
    /\ Call("PastureAt", last.args, Holding(PastureAt(last.args[1])))

NextPasture == MakePasture \/ MakePastureAt

SpecPasture == InitPasture /\ [][NextPasture]_vars

\* The pairs of orthogonally adjacent cells of a set of cells.
AdjacentPairs(cells) ==
    {pair \in SUBSET cells :
        /\ Cardinality(pair) = 2
        /\ \E c, d \in pair : Abs(c[1] - d[1]) + Abs(c[2] - d[2]) = 1}

\* C22: the fence set of every pasture is the set of unit edges that bound
\* one cell of its cell set and are not shared by two cells of that set, and
\* their number is 4 * |cells| - 2 * (number of adjacent pairs of cells),
\* whether or not the list given repeats a cell.
C22_FencesAreBoundary ==
    \A i \in 1..Len(_pastures) :
        /\ _pastures[i].fences = Boundary(_pastures[i].spaces)
        /\ Cardinality(_pastures[i].fences) =
              4 * Cardinality(_pastures[i].spaces)
              - 2 * Cardinality(AdjacentPairs(_pastures[i].spaces))

\* The food n bakings give with rate list R: the first min(n, Len(R) - 1)
\* uses take the non-final rates in order, the others the final rate.
BreadFood(R, n) ==
    LET listed == IF n < Len(R) - 1 THEN n ELSE Len(R) - 1
    IN  SumSeq(SubSeq(R, 1, listed)) + R[Len(R)] * (n - listed)

\* C23: bake_bread(n) is rejected as malformed, changing nothing, when the
\* final rate is 0 and n > Len(bread_rates) - 1; otherwise with grain >= n it
\* takes n grain and gives the food of n bakings, and with grain < n it is
\* rejected, changing nothing.
C23_BakeBread ==
    [][last'.op = "bake_bread" =>
          LET n == last'.args
          IN  IF bread_rates[Len(bread_rates)] = 0 /\ n > Len(bread_rates) - 1
              THEN last'.result = "AgricolaPoorlyFormed" /\ OtherValuesUnchanged({})
              ELSE IF Value("grain") >= n
              THEN /\ last'.result = "ok"
                   /\ Value("grain")' = Value("grain") - n
                   /\ Value("food")' = Value("food") + BreadFood(bread_rates, n)
                   /\ OtherValuesUnchanged({"grain", "food"})
              ELSE /\ last'.result = "AgricolaNotEnoughResources"
                   /\ OtherValuesUnchanged({})]_vars

(***************************************************************************)
(* Herding: animals added between the pasture and stable operations        *)
(***************************************************************************)
\* The list `capacities` as _check_animal_capacity builds it: a unit for
\* every free stable and one more, then the capacity of every pasture; or
\* the AttributeError of reading self.n_free_stables, or of the first
\* p.capacity().
animal_capacities(p) ==
    IF ~has_attribute("n_free_stables") THEN [result |-> "AttributeError", value |-> <<>>]
    ELSE IF \E i \in 1..Len(p.pastures) : capacity_call(p.pastures[i]).result # "ok"
    THEN [result |-> "AttributeError", value |-> <<>>]
    ELSE [result |-> "ok",
          value |-> [i \in 1..(free_stables(p) + 1) |-> 1]
                      \o [i \in 1..Len(p.pastures) |-> capacity_call(p.pastures[i]).value]]

NextHerd ==
    \/ AddAnimals(LedgerAnimalArgs)
    \/ BuildPastures(PastureArgs)
    \/ BuildStables(OneSpace, StableCosts)

SpecHerd == InitFence /\ [][NextHerd]_vars

HerdingPlayer == [NewPlayer EXCEPT !.animals["sheep"] = 2, !.animals["boar"] = 1]

\* The animals cooked: dicts of one or two kinds.
FlockCookArgs ==
    {<<<<"sheep", 1>>>>, <<<<"sheep", 2>>>>, <<<<"boar", 1>>>>, <<<<"cattle", 1>>>>,
     <<<<"sheep", 1>>, <<"boar", 1>>>>, <<<<"boar", 1>>, <<"sheep", 2>>>>,
     <<<<"cattle", 0>>>>, <<<<"sheep", 0>>, <<"boar", 0>>>>}

InitFlock == InitPlayer(HerdingPlayer) /\ NoSolver

NextFlock == AddAnimals(LedgerAnimalArgs) \/ CookFood(FlockCookArgs)

SpecFlock == InitFlock /\ [][NextFlock]_vars

\* C25: every animal kind has one count: the count read from the player
\* (the one transactions test and change) is the count add_animals and its
\* capacity check use, after any interleaving of add_animals and cook_food.
C25_OneCount == \A a \in ANIMALS : Value(a) = animals[a]

\* The food that cooking `counts` gives: for every resource its cooking
\* rate times the number cooked.
CookedFood(counts) ==
    SumSeq([i \in 1..Len(counts) |-> cooking_rates[counts[i][1]] * counts[i][2]])

\* C26: cook_food(counts) with counts >= 0 of resources that can be cooked:
\* when the player holds counts[r] of every r, each r is lowered by counts[r]
\* and food grows by the sum of cooking_rates[r] * counts[r]; when some r is
\* short the call is rejected and nothing changes.
C26_CookFood ==
    [][(/\ last'.op = "cook_food"
        /\ \A i \in 1..Len(last'.args) :
                last'.args[i][1] \in DOMAIN cooking_rates /\ last'.args[i][2] >= 0)
          => LET counts == last'.args
             IN  IF \A i \in 1..Len(counts) : Value(counts[i][1]) >= counts[i][2]
                 THEN /\ last'.result = "ok"
                      /\ \A r \in DOMAIN cooking_rates :
                            r \in Keys(counts) => Value(r)' = Value(r) - Get(counts, r, 0)
                      /\ Value("food")' = Value("food") + CookedFood(counts)
                      /\ OtherValuesUnchanged(Keys(counts) \cup {"food"})
                 ELSE /\ last'.result = "AgricolaNotEnoughResources"
                      /\ OtherValuesUnchanged({})]_vars
====
